---- MODULE Spec2Model ----
(***************************************************************************)
(* Command execution engines (CEEs) of the multi-UAV simulation:           *)
(* src/CommandExecEngine.cc.  One UAV node, its queue of pending engines   *)
(* (node->cees), the engine it currently executes, and the simulation      *)
(* clock.                                                                  *)
(*                                                                         *)
(* Numbers.  Coordinates are whole metres, times whole seconds, angles     *)
(* whole degrees.  The legs, speeds and step sizes drawn below are chosen  *)
(* so that every product and quotient the code forms is a whole number:    *)
(* arithmetic is exact, and a quantity is below the code's 1.e-10          *)
(* tolerance exactly when it is 0.                                         *)
(***************************************************************************)
EXTENDS Integers, Sequences, FiniteSets, TLC

VARIABLES node, cee, cees, now, sumDt, initTime, transfers, sent, loaded, discharged

\* discharged is the energy the battery has given up to the engine in execution

vars == <<node, cee, cees, now, sumDt, initTime, transfers, sent, loaded, discharged>>

(***************************************************************************)
(* Bounds of the model.                                                    *)
(***************************************************************************)
\* the clock runs from 0 to MaxTime
MaxTime == 2
\* largest hold duration of a HoldPositionCommand, in seconds
MaxHold == MaxTime - 1
\* largest stepSize handed to updateState
MaxStep == 2
\* an engine is updated while the sum of its step sizes stays within MaxElapsed
MaxElapsed == MaxStep + 1
\* battery capacity
Capacity == 4
\* largest consumption rate predictNormConsumptionRandom() draws
MaxRate == 2

Abs(v) == IF v < 0 THEN -v ELSE v

Max(a, b) == IF a > b THEN a ELSE b

\* v < 1.e-10 for a non-negative whole number v
BelowEps(v) == v = 0

\* sqrt(n), for the perfect squares the legs below produce
Sqrt(n) == CHOOSE r \in 0..n : r * r = n

(***************************************************************************)
(* atan2(y, x) / M_PI * 180 and sin, cos of an angle in degrees, tabulated *)
(* for the axis directions and the 3-4-5 family.  Angles are rounded to    *)
(* the whole degree; Sin5 and Cos5 are five times the sine and cosine of   *)
(* the unrounded angle.                                                    *)
(***************************************************************************)
Atan2Deg(y, x) ==
    CASE y = 0 /\ x >= 0 -> 0
      [] y = 0 /\ x < 0 -> 180
      [] x = 0 /\ y > 0 -> 90
      [] x = 0 /\ y < 0 -> -90
      [] x > 0 /\ y > 0 /\ 3 * y = 4 * x -> 53
      [] x > 0 /\ y < 0 /\ -3 * y = 4 * x -> -53
      [] x < 0 /\ y > 0 /\ 3 * y = -4 * x -> 127
      [] x < 0 /\ y < 0 /\ 3 * y = 4 * x -> -127

Sin5(a) ==
    CASE a \in {0, 180} -> 0
      [] a = 90 -> 5
      [] a \in {-90, 270} -> -5
      [] a \in {53, 127} -> 4
      [] a \in {-53, -127, 233, 307} -> -4

Cos5(a) ==
    CASE a = 0 -> 5
      [] a = 180 -> -5
      [] a \in {90, -90, 270} -> 0
      [] a \in {53, -53, 307} -> 3
      [] a \in {127, -127, 233} -> -3

(***************************************************************************)
(* Values a call hands back: nothing, a bool, a number, a cRuntimeError,   *)
(* or a failed ASSERT.                                                     *)
(***************************************************************************)
Void == [kind |-> "void", b |-> FALSE, n |-> 0]

Bool(v) == [kind |-> "bool", b |-> v, n |-> 0]

Num(v) == [kind |-> "num", b |-> FALSE, n |-> v]

RuntimeError == [kind |-> "error", b |-> FALSE, n |-> 0]

AssertFailed == [kind |-> "assert", b |-> FALSE, n |-> 0]

(***************************************************************************)
(* The battery of the node (Battery is not part of CommandExecEngine.cc).  *)
(***************************************************************************)
Battery_discharge(remaining, amount) == Max(0, remaining - amount)

Battery_isFull(remaining) == remaining >= Capacity

Battery_getRemainingPercentage(remaining) == (100 * remaining) \div Capacity

(***************************************************************************)
(* External collaborators of the engines: the inputs they supply.          *)
(***************************************************************************)
\* node->getSpeed(climbAngle): the speeds the node can resolve
Speeds == {5, 10}

\* predictNormConsumptionRandom(): the rates it can draw
Rates == 1..MaxRate

\* displacement origin -> target of a WaypointCommand
WaypointLegs == {<<6, 8, 0>>, <<0, -6, 8>>}

\* climb of a TakeoffCommand (target altitude minus the node's altitude)
TakeoffClimbs == {10, -10}

\* offset of the nearest charging node from the node (UAVNode::findNearestCN)
StationLegs == {<<6, 8, 0>>, <<0, 0, 0>>}

\* node->getMovementConsumption / getHoverConsumption: what they can return
MaxConsumption == 1

Consumptions == 0..MaxConsumption

(***************************************************************************)
(* An engine.  The fields of the base class CommandExecEngine, the fields  *)
(* the variants add (holdPositionTill, batteryRemainingExecutionStart),    *)
(* the parameters of the bound command (holdSeconds, rechargeRequested,    *)
(* otherNodeKnown), whether the command pointer is set (hasCommand) and    *)
(* the lifecycle position of the engine (phase: created, initialized,      *)
(* active, exited; entered: its entry actions ran).                        *)
(***************************************************************************)
CommandExecEngine(type, nd, to) ==
    [type |-> type, phase |-> "created",
     x0 |-> nd.x, y0 |-> nd.y, z0 |-> nd.z,
     x1 |-> to[1], y1 |-> to[2], z1 |-> to[3],
     yaw |-> 0, pitch |-> 0, climbAngle |-> 0, speed |-> 0,
     consumptionPerSecond |-> 0, commandCompleted |-> FALSE,
     timeExecutionStart |-> 0, holdPositionTill |-> 0,
     batteryRemainingExecutionStart |-> 0,
     partOfMission |-> TRUE, replacementNeeded |-> TRUE,
     holdSeconds |-> 0, rechargeRequested |-> FALSE, otherNodeKnown |-> FALSE,
     hasCommand |-> TRUE, entered |-> FALSE]

\* the placeholder for "the node executes no engine"
NoCEE == [CommandExecEngine("NONE", [x |-> 0, y |-> 0, z |-> 0], <<0, 0, 0>>) EXCEPT !.phase = "none"]

WaypointCEE(nd, command) ==
    CommandExecEngine("WAYPOINT", nd, <<command.x, command.y, command.z>>)

TakeoffCEE(nd, command) ==
    CommandExecEngine("TAKEOFF", nd, <<nd.x, nd.y, command.z>>)

HoldPositionCEE(nd, command) ==
    [CommandExecEngine("HOLDPOSITION", nd, <<command.x, command.y, command.z>>)
        EXCEPT !.holdSeconds = command.holdSeconds]

ChargeCEE(nd) ==
    CommandExecEngine("CHARGE", nd, <<nd.x, nd.y, nd.z>>)

ExchangeCEE(nd, command) ==
    [CommandExecEngine("EXCHANGE", nd, <<nd.x, nd.y, nd.z>>)
        EXCEPT !.rechargeRequested = command.rechargeRequested,
               !.otherNodeKnown = command.otherNodeKnown]

IdleCEE(nd) ==
    CommandExecEngine("IDLE", nd, <<nd.x, nd.y, nd.z>>)

\* the engine a constructor leaves when it is handed a null command: the
\* fields it reads through the pointer hold whatever the read yields
WithoutCommand(e) == [e EXCEPT !.hasCommand = FALSE]

\* a queue that takes a new engine at its back instead
push_back(q, e) == Append(q, e)

\* node->cees.push_front(e)
push_front(q, e) == <<e>> \o q

setToCoordinates(e, x, y, z) == [e EXCEPT !.x1 = x, !.y1 = y, !.z1 = z]

setFromCoordinates(e, x, y, z) == [e EXCEPT !.x0 = x, !.y0 = y, !.z0 = z]

setPartOfMission(e, v) == [e EXCEPT !.partOfMission = v]

setNoReplacementNeeded(e) == [e EXCEPT !.replacementNeeded = FALSE]

(***************************************************************************)
(* What a call does to the engine and to the node it is bound to.          *)
(***************************************************************************)
Effect(e, nd) == [cee |-> e, node |-> nd]

\* completeConsumption / duration < 1000 in doubles: x / 0 is NaN or +inf,
\* and neither is below 1000
RateBelow1000(completeConsumption, duration) ==
    IF duration = 0 THEN FALSE ELSE completeConsumption < 1000 * duration

\* node->getMovementConsumption(climbAngle, duration, fromMethod) and
\* node->getHoverConsumption(duration, fromMethod): perSecond is the figure of
\* the consumption model for one second
Consumption(perSecond, duration) == perSecond * duration

(***************************************************************************)
(* Waypoint Command Execution Engine                                       *)
(***************************************************************************)
WaypointCEE_isCommandCompleted(e, nd) ==
    LET distanceSum == Abs(e.x1 - nd.x) + Abs(e.y1 - nd.y) + Abs(e.z1 - nd.z)
    IN  Bool(e.commandCompleted \/ BelowEps(distanceSum))

\* what initializeCEE() of a Waypoint engine ends with
WaypointCEE_initializeCEE_result(e) ==
    IF ~e.hasCommand THEN RuntimeError ELSE Void

WaypointCEE_initializeCEE(e, t, s, r) ==
    LET dx0 == e.x1 - e.x0
        dy0 == e.y1 - e.y0
        dz0 == e.z1 - e.z0
        dx == IF BelowEps(Abs(dx0)) THEN 0 ELSE dx0
        dy == IF BelowEps(Abs(dy0)) THEN 0 ELSE dy0
        dz == IF BelowEps(Abs(dz0)) THEN 0 ELSE dz0
        yaw0 == Atan2Deg(dy, dx)
        climb == Atan2Deg(dz, Sqrt(dx * dx + dy * dy))
    IN  IF WaypointCEE_initializeCEE_result(e) = RuntimeError THEN e
        ELSE [e EXCEPT !.yaw = IF yaw0 < 0 THEN yaw0 + 360 ELSE yaw0,
                       !.climbAngle = climb,
                       !.pitch = (-1) * climb,
                       !.speed = s,
                       !.consumptionPerSecond = r]

\* an activation that levels the pitch of the engine
WaypointCEE_setNodeParameters_Level(e, nd, t) ==
    Effect([e EXCEPT !.timeExecutionStart = t, !.pitch = 0],
           [nd EXCEPT !.yaw = e.yaw, !.pitch = e.pitch,
                      !.climbAngle = e.climbAngle, !.speed = e.speed])

WaypointCEE_setNodeParameters(e, nd, t) ==
    Effect([e EXCEPT !.timeExecutionStart = t],
           [nd EXCEPT !.yaw = e.yaw, !.pitch = e.pitch,
                      !.climbAngle = e.climbAngle, !.speed = e.speed])

\* a step that stops the node at the target instead of flying past it
WaypointCEE_updateState_Clamped(e, nd, stepSize) ==
    LET stepDistance == stepSize * e.speed
        stepZ == (stepDistance * Sin5(e.climbAngle)) \div 5
        stepXY == (stepDistance * Cos5(e.climbAngle)) \div 5
        stepX == (stepXY * Cos5(e.yaw)) \div 5
        stepY == (stepXY * Sin5(e.yaw)) \div 5
        dx == e.x1 - nd.x
        dy == e.y1 - nd.y
        dz == e.z1 - nd.z
        arrives == stepDistance * stepDistance >= dx * dx + dy * dy + dz * dz
    IN  Effect(e,
               [nd EXCEPT !.x = IF arrives THEN e.x1 ELSE @ + stepX,
                          !.y = IF arrives THEN e.y1 ELSE @ + stepY,
                          !.z = IF arrives THEN e.z1 ELSE @ + stepZ,
                          !.remaining = Battery_discharge(@, e.consumptionPerSecond * stepSize)])

\* a step that takes the yaw from the y axis instead of the x axis
WaypointCEE_updateState_YawFromY(e, nd, stepSize) ==
    LET stepDistance == stepSize * e.speed
        stepZ == (stepDistance * Sin5(e.climbAngle)) \div 5
        stepXY == (stepDistance * Cos5(e.climbAngle)) \div 5
        stepX == (stepXY * Sin5(e.yaw)) \div 5
        stepY == (stepXY * Cos5(e.yaw)) \div 5
    IN  Effect(e,
               [nd EXCEPT !.x = @ + stepX, !.y = @ + stepY, !.z = @ + stepZ,
                          !.remaining = Battery_discharge(@, e.consumptionPerSecond * stepSize)])

WaypointCEE_updateState(e, nd, stepSize) ==
    LET stepDistance == stepSize * e.speed
        stepZ == (stepDistance * Sin5(e.climbAngle)) \div 5
        stepXY == (stepDistance * Cos5(e.climbAngle)) \div 5
        stepX == (stepXY * Cos5(e.yaw)) \div 5
        stepY == (stepXY * Sin5(e.yaw)) \div 5
    IN  Effect(e,
               [nd EXCEPT !.x = @ + stepX, !.y = @ + stepY, !.z = @ + stepZ,
                          !.remaining = Battery_discharge(@, e.consumptionPerSecond * stepSize)])

WaypointCEE_distance(e) ==
    LET dx == e.x1 - e.x0
        dy == e.y1 - e.y0
        dz == e.z1 - e.z0
        distance == Sqrt(dx * dx + dy * dy + dz * dz)
    IN  IF BelowEps(distance) THEN 0 ELSE distance

WaypointCEE_getOverallDuration(e) == Num(WaypointCEE_distance(e) \div e.speed)

WaypointCEE_getOverallDurationQuantile(e, pessimisticSpeed) ==
    Num(WaypointCEE_distance(e) \div pessimisticSpeed)

WaypointCEE_getRemainingTime(e, nd) ==
    LET dx == e.x1 - nd.x
        dy == e.y1 - nd.y
        dz == e.z1 - nd.z
        distance == Sqrt(dx * dx + dy * dy + dz * dz)
    IN  Num((IF BelowEps(distance) THEN 0 ELSE distance) \div e.speed)

WaypointCEE_getProbableConsumption(e, normalized, perSecond) ==
    LET distance == WaypointCEE_distance(e)
        duration == distance \div e.speed
        completeConsumption == Consumption(perSecond, duration)
    IN  IF BelowEps(distance) THEN Num(0)
        ELSE IF ~(completeConsumption > 0 /\ RateBelow1000(completeConsumption, duration))
             THEN AssertFailed
        ELSE IF normalized THEN Num(completeConsumption \div duration)
        ELSE Num(completeConsumption)

(***************************************************************************)
(* Takeoff Command Execution Engine                                        *)
(***************************************************************************)
TakeoffCEE_isCommandCompleted(e, nd) ==
    LET distanceSum == Abs(e.z1 - nd.z)
    IN  Bool(BelowEps(distanceSum))

\* an initialisation that takes the climb direction the wrong way round
TakeoffCEE_initializeCEE_Reversed(e, t, s, r) ==
    [e EXCEPT !.pitch = 0,
              !.climbAngle = IF e.z1 > e.z0 THEN -90 ELSE 90,
              !.speed = s,
              !.consumptionPerSecond = r]

TakeoffCEE_initializeCEE(e, t, s, r) ==
    [e EXCEPT !.pitch = 0,
              !.climbAngle = IF e.z1 > e.z0 THEN 90 ELSE -90,
              !.speed = s,
              !.consumptionPerSecond = r]

TakeoffCEE_setNodeParameters(e, nd, t) ==
    Effect([e EXCEPT !.timeExecutionStart = t],
           [nd EXCEPT !.pitch = e.pitch, !.climbAngle = e.climbAngle, !.speed = e.speed])

\* a step that always climbs
TakeoffCEE_updateState_Upward(e, nd, stepSize) ==
    LET stepDistance == e.speed * stepSize
    IN  Effect(e,
               [nd EXCEPT !.z = @ + stepDistance,
                          !.remaining = Battery_discharge(@, e.consumptionPerSecond * stepSize)])

TakeoffCEE_updateState(e, nd, stepSize) ==
    LET stepDistance == e.speed * stepSize
    IN  Effect(e,
               [nd EXCEPT !.z = IF e.z1 > nd.z THEN @ + stepDistance ELSE @ - stepDistance,
                          !.remaining = Battery_discharge(@, e.consumptionPerSecond * stepSize)])

TakeoffCEE_getOverallDuration(e) == Num(Abs(e.z1 - e.z0) \div e.speed)

TakeoffCEE_getRemainingTime(e, nd) == Num(Abs(e.z1 - nd.z) \div e.speed)

TakeoffCEE_getProbableConsumption(e, normalized, perSecond) ==
    LET duration == Abs(e.z1 - e.z0) \div e.speed
        completeConsumption == Consumption(perSecond, duration)
    IN  IF ~(completeConsumption >= 0 /\ RateBelow1000(completeConsumption, duration))
        THEN AssertFailed
        ELSE IF normalized THEN Num(completeConsumption \div duration)
        ELSE Num(completeConsumption)

(***************************************************************************)
(* HoldPosition Command Execution Engine                                   *)
(***************************************************************************)
\* a completion check that is true before the deadline rather than at it
HoldPositionCEE_isCommandCompleted_Early(e, t) ==
    IF t > e.holdPositionTill THEN RuntimeError
    ELSE Bool(IF e.commandCompleted \/ t < e.holdPositionTill THEN TRUE ELSE FALSE)

\* a completion check that looks at the latch before it looks at the clock
HoldPositionCEE_isCommandCompleted_LatchFirst(e, t) ==
    IF e.commandCompleted THEN Bool(TRUE)
    ELSE IF t > e.holdPositionTill THEN RuntimeError
    ELSE Bool(t = e.holdPositionTill)

HoldPositionCEE_isCommandCompleted(e, t) ==
    IF t > e.holdPositionTill THEN RuntimeError
    ELSE Bool(IF e.commandCompleted \/ t = e.holdPositionTill THEN TRUE ELSE FALSE)

\* an initialisation whose deadline forgets the current time
HoldPositionCEE_initializeCEE_Relative(e, t, s, r) ==
    [e EXCEPT !.holdPositionTill = e.holdSeconds,
              !.consumptionPerSecond = r]

HoldPositionCEE_initializeCEE(e, t, s, r) ==
    [e EXCEPT !.holdPositionTill = t + e.holdSeconds,
              !.consumptionPerSecond = r]

HoldPositionCEE_setNodeParameters(e, nd, t) ==
    Effect([e EXCEPT !.timeExecutionStart = t],
           [nd EXCEPT !.pitch = 0, !.climbAngle = 0, !.speed = 0])

HoldPositionCEE_updateState(e, nd, stepSize) ==
    Effect(e, [nd EXCEPT !.remaining = Battery_discharge(@, e.consumptionPerSecond * stepSize)])

HoldPositionCEE_getOverallDuration(e) == Num(e.holdSeconds)

HoldPositionCEE_getRemainingTime(e, t) == Num(e.holdPositionTill - t)

HoldPositionCEE_getProbableConsumption(e, normalized, perSecond) ==
    LET duration == e.holdSeconds
        completeConsumption == Consumption(perSecond, duration)
    IN  IF ~(completeConsumption >= 0 /\ RateBelow1000(completeConsumption, duration))
        THEN AssertFailed
        ELSE IF normalized THEN Num(completeConsumption \div duration)
        ELSE Num(completeConsumption)

(***************************************************************************)
(* Charge Command Execution Engine                                         *)
(***************************************************************************)
\* CommandExecEngine::isActive(): the engine has been started
isActive(e) == e.phase \in {"active", "exited"}

ChargeCEE_isCommandCompleted(e, nd) ==
    Bool(e.commandCompleted \/ Battery_isFull(nd.remaining))

ChargeCEE_initializeCEE(e, t, s, r) == e

ChargeCEE_setNodeParameters(e, nd, t) ==
    Effect([e EXCEPT !.timeExecutionStart = t,
                     !.batteryRemainingExecutionStart = nd.remaining],
           [nd EXCEPT !.yaw = ((Battery_getRemainingPercentage(nd.remaining) \div 10) * 360) % 360,
                      !.pitch = 0, !.climbAngle = 0, !.speed = 0])

ChargeCEE_updateState(e, nd, stepSize) == Effect(e, nd)

ChargeCEE_getOverallDuration(e) == RuntimeError

\* a remaining time that is made up instead of refused
ChargeCEE_getRemainingTime_Fabricated(e) == Num(1)

ChargeCEE_getRemainingTime(e) == RuntimeError

ChargeCEE_getProbableConsumption(e, normalized, perSecond) == Num(0)

\* a total that reports the energy gained with a positive sign
ChargeCEE_getConsumptionTotal_Gain(e, nd) ==
    LET difference == nd.remaining - e.batteryRemainingExecutionStart
    IN  IF ~isActive(e) THEN RuntimeError
        ELSE IF ~(difference > 0) THEN AssertFailed
        ELSE Num(difference)

ChargeCEE_getConsumptionTotal(e, nd) ==
    LET difference == nd.remaining - e.batteryRemainingExecutionStart
    IN  IF ~isActive(e) THEN RuntimeError
        ELSE IF ~(difference > 0) THEN AssertFailed
        ELSE Num((-1) * difference)

(***************************************************************************)
(* Exchange Command Execution Engine                                       *)
(***************************************************************************)
ExchangeCEE_isCommandCompleted(e) == Bool(e.commandCompleted)

ExchangeCEE_initializeCEE(e, t, s, r) == [e EXCEPT !.consumptionPerSecond = r]

ExchangeCEE_setNodeParameters(e, nd, t) ==
    Effect([e EXCEPT !.timeExecutionStart = t],
           [nd EXCEPT !.yaw = ((Battery_getRemainingPercentage(nd.remaining) \div 10) * 360) % 360,
                      !.pitch = 0, !.climbAngle = 0, !.speed = 0])

\* a step that discharges the rate of one second whatever the step size
ExchangeCEE_updateState_PerCall(e, nd, stepSize) ==
    Effect(e, [nd EXCEPT !.remaining = Battery_discharge(@, e.consumptionPerSecond)])

ExchangeCEE_updateState(e, nd, stepSize) ==
    Effect(e, [nd EXCEPT !.remaining = Battery_discharge(@, e.consumptionPerSecond * stepSize)])

ExchangeCEE_getOverallDuration(e) == RuntimeError

ExchangeCEE_getRemainingTime(e) == RuntimeError

ExchangeCEE_getProbableConsumption(e, normalized, perSecond) ==
    LET duration == 1
        completeConsumption == Consumption(perSecond, duration)
    IN  IF ~(completeConsumption >= 0 /\ RateBelow1000(completeConsumption, duration))
        THEN AssertFailed
        ELSE Num(completeConsumption)

\* entry actions that transfer without asking whether the peer is known
ExchangeCEE_performEntryActions_AnyPeer(e) ==
    IF e.rechargeRequested THEN 1 ELSE 0

\* the number of mission-data transfers performEntryActions() triggers
ExchangeCEE_performEntryActions(e) ==
    IF e.rechargeRequested
    THEN IF ~e.otherNodeKnown THEN 0 ELSE 1
    ELSE 0

(***************************************************************************)
(* Idle Command Execution Engine                                           *)
(***************************************************************************)
IdleCEE_isCommandCompleted(e) == Bool(e.commandCompleted)

\* an initialisation that draws a consumption rate for idling
IdleCEE_initializeCEE_Drawn(e, t, s, r) == [e EXCEPT !.consumptionPerSecond = r]

IdleCEE_initializeCEE(e, t, s, r) == [e EXCEPT !.consumptionPerSecond = 0]

IdleCEE_setNodeParameters(e, nd, t) == Effect([e EXCEPT !.timeExecutionStart = t], nd)

IdleCEE_updateState(e, nd, stepSize) ==
    Effect(e, [nd EXCEPT !.remaining = Battery_discharge(@, e.consumptionPerSecond * stepSize)])

IdleCEE_getOverallDuration(e) == RuntimeError

IdleCEE_getRemainingTime(e) == RuntimeError

IdleCEE_getProbableConsumption(e, normalized, perSecond) == Num(0)

(***************************************************************************)
(* The virtual calls of CommandExecEngine, dispatched on the engine type.  *)
(***************************************************************************)
isCommandCompleted(e, nd, t) ==
    CASE e.type = "WAYPOINT" -> WaypointCEE_isCommandCompleted(e, nd)
      [] e.type = "TAKEOFF" -> TakeoffCEE_isCommandCompleted(e, nd)
      [] e.type = "HOLDPOSITION" -> HoldPositionCEE_isCommandCompleted(e, t)
      [] e.type = "CHARGE" -> ChargeCEE_isCommandCompleted(e, nd)
      [] e.type = "EXCHANGE" -> ExchangeCEE_isCommandCompleted(e)
      [] e.type = "IDLE" -> IdleCEE_isCommandCompleted(e)

initializeCEE(e, t, s, r) ==
    LET i == CASE e.type = "WAYPOINT" -> WaypointCEE_initializeCEE(e, t, s, r)
               [] e.type = "TAKEOFF" -> TakeoffCEE_initializeCEE(e, t, s, r)
               [] e.type = "HOLDPOSITION" -> HoldPositionCEE_initializeCEE(e, t, s, r)
               [] e.type = "CHARGE" -> ChargeCEE_initializeCEE(e, t, s, r)
               [] e.type = "EXCHANGE" -> ExchangeCEE_initializeCEE(e, t, s, r)
               [] e.type = "IDLE" -> IdleCEE_initializeCEE(e, t, s, r)
        thrown == e.type = "WAYPOINT" /\ WaypointCEE_initializeCEE_result(e) = RuntimeError
    IN  IF thrown THEN i ELSE [i EXCEPT !.phase = "initialized"]

setNodeParameters(e, nd, t) ==
    LET f == CASE e.type = "WAYPOINT" -> WaypointCEE_setNodeParameters(e, nd, t)
               [] e.type = "TAKEOFF" -> TakeoffCEE_setNodeParameters(e, nd, t)
               [] e.type = "HOLDPOSITION" -> HoldPositionCEE_setNodeParameters(e, nd, t)
               [] e.type = "CHARGE" -> ChargeCEE_setNodeParameters(e, nd, t)
               [] e.type = "EXCHANGE" -> ExchangeCEE_setNodeParameters(e, nd, t)
               [] e.type = "IDLE" -> IdleCEE_setNodeParameters(e, nd, t)
    IN  Effect([f.cee EXCEPT !.phase = "active"], f.node)

updateState(e, nd, stepSize) ==
    CASE e.type = "WAYPOINT" -> WaypointCEE_updateState(e, nd, stepSize)
      [] e.type = "TAKEOFF" -> TakeoffCEE_updateState(e, nd, stepSize)
      [] e.type = "HOLDPOSITION" -> HoldPositionCEE_updateState(e, nd, stepSize)
      [] e.type = "CHARGE" -> ChargeCEE_updateState(e, nd, stepSize)
      [] e.type = "EXCHANGE" -> ExchangeCEE_updateState(e, nd, stepSize)
      [] e.type = "IDLE" -> IdleCEE_updateState(e, nd, stepSize)

getOverallDuration(e) ==
    CASE e.type = "WAYPOINT" -> WaypointCEE_getOverallDuration(e)
      [] e.type = "TAKEOFF" -> TakeoffCEE_getOverallDuration(e)
      [] e.type = "HOLDPOSITION" -> HoldPositionCEE_getOverallDuration(e)
      [] e.type = "CHARGE" -> ChargeCEE_getOverallDuration(e)
      [] e.type = "EXCHANGE" -> ExchangeCEE_getOverallDuration(e)
      [] e.type = "IDLE" -> IdleCEE_getOverallDuration(e)

getRemainingTime(e, nd, t) ==
    CASE e.type = "WAYPOINT" -> WaypointCEE_getRemainingTime(e, nd)
      [] e.type = "TAKEOFF" -> TakeoffCEE_getRemainingTime(e, nd)
      [] e.type = "HOLDPOSITION" -> HoldPositionCEE_getRemainingTime(e, t)
      [] e.type = "CHARGE" -> ChargeCEE_getRemainingTime(e)
      [] e.type = "EXCHANGE" -> ExchangeCEE_getRemainingTime(e)
      [] e.type = "IDLE" -> IdleCEE_getRemainingTime(e)

getProbableConsumption(e, normalized, perSecond) ==
    CASE e.type = "WAYPOINT" -> WaypointCEE_getProbableConsumption(e, normalized, perSecond)
      [] e.type = "TAKEOFF" -> TakeoffCEE_getProbableConsumption(e, normalized, perSecond)
      [] e.type = "HOLDPOSITION" -> HoldPositionCEE_getProbableConsumption(e, normalized, perSecond)
      [] e.type = "CHARGE" -> ChargeCEE_getProbableConsumption(e, normalized, perSecond)
      [] e.type = "EXCHANGE" -> ExchangeCEE_getProbableConsumption(e, normalized, perSecond)
      [] e.type = "IDLE" -> IdleCEE_getProbableConsumption(e, normalized, perSecond)

\* exit actions whose reservation gives the flight time as the arrival time
ExchangeCEE_performExitActions_NoClock(e, nd, q, out, t, cn, s, r, normalized, perSecond) ==
    LET goToChargingNodeCEE ==
            initializeCEE(
                setNoReplacementNeeded(setPartOfMission(WaypointCEE(nd, cn), FALSE)),
                t, s, r)
        goToChargingNodeDuration == getOverallDuration(goToChargingNodeCEE).n
        consumption == getProbableConsumption(goToChargingNodeCEE, normalized, perSecond)
        msg == [name |-> "reserveSpot",
                estimatedArrival |-> goToChargingNodeDuration,
                consumptionTillArrival |-> consumption.n,
                targetPercentage |-> 100,
                to |-> <<cn.x, cn.y, cn.z>>]
        chargeCEE ==
            setNoReplacementNeeded(setPartOfMission(
                setToCoordinates(ChargeCEE(nd), cn.x, cn.y, cn.z), FALSE))
        idleCEE ==
            setNoReplacementNeeded(setPartOfMission(
                setFromCoordinates(setToCoordinates(IdleCEE(nd), cn.x, cn.y, cn.z),
                                   cn.x, cn.y, cn.z), FALSE))
    IN  IF ~e.rechargeRequested
        THEN [node |-> nd, cees |-> q, sent |-> out, ret |-> Void]
        ELSE IF consumption.kind = "assert"
        THEN [node |-> nd, cees |-> q, sent |-> out, ret |-> AssertFailed]
        ELSE [node |-> [nd EXCEPT !.missionId = -1],
              cees |-> push_front(push_front(push_front(q, idleCEE), chargeCEE),
                                  goToChargingNodeCEE),
              sent |-> Append(out, msg),
              ret |-> Void]

(***************************************************************************)
(* ExchangeCEE::performExitActions().  cn is the nearest charging node;    *)
(* s and r are what initializing the travel engine resolves and draws;     *)
(* normalized and perSecond are the default arguments and the consumption  *)
(* model's figure of its getProbableConsumption() call.  The result holds  *)
(* the node, its queue and the messages sent after the call, and what the  *)
(* call ended with.                                                        *)
(***************************************************************************)
ExchangeCEE_performExitActions(e, nd, q, out, t, cn, s, r, normalized, perSecond) ==
    LET goToChargingNodeCEE ==
            initializeCEE(
                setNoReplacementNeeded(setPartOfMission(WaypointCEE(nd, cn), FALSE)),
                t, s, r)
        goToChargingNodeDuration == getOverallDuration(goToChargingNodeCEE).n
        consumption == getProbableConsumption(goToChargingNodeCEE, normalized, perSecond)
        msg == [name |-> "reserveSpot",
                estimatedArrival |-> t + goToChargingNodeDuration,
                consumptionTillArrival |-> consumption.n,
                targetPercentage |-> 100,
                to |-> <<cn.x, cn.y, cn.z>>]
        chargeCEE ==
            setNoReplacementNeeded(setPartOfMission(
                setToCoordinates(ChargeCEE(nd), cn.x, cn.y, cn.z), FALSE))
        idleCEE ==
            setNoReplacementNeeded(setPartOfMission(
                setFromCoordinates(setToCoordinates(IdleCEE(nd), cn.x, cn.y, cn.z),
                                   cn.x, cn.y, cn.z), FALSE))
    IN  IF ~e.rechargeRequested
        THEN [node |-> nd, cees |-> q, sent |-> out, ret |-> Void]
        ELSE IF consumption.kind = "assert"
        THEN [node |-> nd, cees |-> q, sent |-> out, ret |-> AssertFailed]
        ELSE [node |-> [nd EXCEPT !.missionId = -1],
              cees |-> push_front(push_front(push_front(q, idleCEE), chargeCEE),
                                  goToChargingNodeCEE),
              sent |-> Append(out, msg),
              ret |-> Void]

(***************************************************************************)
(* The node, its mission and the initial state.                            *)
(***************************************************************************)
Node0(remaining) ==
    [x |-> 0, y |-> 0, z |-> 0, yaw |-> 0, pitch |-> 0, climbAngle |-> 0, speed |-> 0,
     remaining |-> remaining, missionId |-> 1]

Target(nd, leg) == [x |-> nd.x + leg[1], y |-> nd.y + leg[2], z |-> nd.z + leg[3]]

\* the engines the mission source can construct for the node in state nd
Commands(nd) ==
    {WaypointCEE(nd, Target(nd, leg)) : leg \in WaypointLegs}
    \cup {TakeoffCEE(nd, [z |-> nd.z + c]) : c \in TakeoffClimbs}
    \cup {HoldPositionCEE(nd, [x |-> nd.x, y |-> nd.y, z |-> nd.z, holdSeconds |-> h]) :
            h \in 0..MaxHold}
    \cup {ChargeCEE(nd), IdleCEE(nd)}
    \cup {ExchangeCEE(nd, [rechargeRequested |-> rr, otherNodeKnown |-> k]) :
            rr \in BOOLEAN, k \in BOOLEAN}
    \cup {WithoutCommand(e) : e \in
            {WaypointCEE(nd, Target(nd, leg)) : leg \in WaypointLegs}
            \cup {TakeoffCEE(nd, [z |-> nd.z + c]) : c \in TakeoffClimbs}
            \cup {HoldPositionCEE(nd, [x |-> nd.x, y |-> nd.y, z |-> nd.z, holdSeconds |-> h]) :
                    h \in 0..MaxHold}
            \cup {ChargeCEE(nd), IdleCEE(nd),
                  ExchangeCEE(nd, [rechargeRequested |-> FALSE, otherNodeKnown |-> FALSE])}}

\* the mission queues the node can start with: empty, or an idle followed by a
\* hold of one second
InitialQueues(nd) ==
    {<<>>,
     <<IdleCEE(nd),
       HoldPositionCEE(nd, [x |-> nd.x, y |-> nd.y, z |-> nd.z, holdSeconds |-> 1])>>}

Init ==
    /\ node = Node0(Capacity - 1)
    /\ cees \in InitialQueues(node)
    /\ cee = NoCEE
    /\ now = 0
    /\ sumDt = 0
    /\ initTime = 0
    /\ transfers = 0
    /\ sent = <<>>
    /\ loaded = FALSE
    /\ discharged = 0

\* the engine in execution has ended: the stepper may activate the next one
Done ==
    \/ cee.phase = "none"
    \/ cee.phase = "exited"
    \/ /\ cee.phase = "active"
       /\ cee.type # "EXCHANGE"
       /\ isCommandCompleted(cee, node, now) = Bool(TRUE)

(***************************************************************************)
(* The stepper and the environment.                                        *)
(***************************************************************************)
\* the mission source constructs one engine for the node, which executes it
\* next: at the start of the mission, or when the queue has run empty
LoadCommand ==
    /\ Done
    /\ cee.phase = "none" \/ cees = <<>>
    /\ ~loaded
    /\ cee' \in Commands(node)
    /\ loaded' = TRUE
    /\ sumDt' = 0
    /\ initTime' = 0
    /\ transfers' = 0
    /\ sent' = <<>>
    /\ discharged' = 0
    /\ UNCHANGED <<node, cees, now>>

\* the stepper takes the next engine from the front of the queue
SelectNextCommand ==
    /\ Done
    /\ cees # <<>>
    /\ cee' = Head(cees)
    /\ cees' = Tail(cees)
    /\ sumDt' = 0
    /\ initTime' = 0
    /\ transfers' = 0
    /\ sent' = <<>>
    /\ discharged' = 0
    /\ UNCHANGED <<node, now, loaded>>

\* the simulation clock advances
Tick ==
    /\ now < MaxTime
    /\ now' = now + 1
    /\ UNCHANGED <<node, cee, cees, sumDt, initTime, transfers, sent, loaded, discharged>>

\* an external actor sets the completion latch of the engine
SetCommandCompleted ==
    /\ cee.phase \in {"initialized", "active"}
    /\ ~cee.commandCompleted
    /\ cee' = [cee EXCEPT !.commandCompleted = TRUE]
    /\ UNCHANGED <<node, cees, now, sumDt, initTime, transfers, sent, loaded, discharged>>

\* the charging node charges the battery while a Charge engine executes
ChargeBattery ==
    /\ cee.type = "CHARGE"
    /\ cee.phase = "active"
    /\ node.remaining < Capacity
    /\ node' = [node EXCEPT !.remaining = @ + 1]
    /\ UNCHANGED <<cee, cees, now, sumDt, initTime, transfers, sent, loaded, discharged>>

(***************************************************************************)
(* The calls on the engine in execution.                                   *)
(***************************************************************************)
\* HoldPositionCEE::initializeCEE() reads the hold duration through the
\* command pointer: with a null pointer the read is undefined, and the call
\* either dies at it or carries on with whatever it yields
InitializeCEE ==
    /\ cee.phase \in {"created", "initialized"}
    /\ \/ /\ \E s \in Speeds, r \in Rates : cee' = initializeCEE(cee, now, s, r)
          /\ initTime' = IF cee.type = "HOLDPOSITION" THEN now ELSE initTime
       \/ /\ cee.type = "HOLDPOSITION"
          /\ ~cee.hasCommand
          /\ UNCHANGED <<cee, initTime>>
    /\ UNCHANGED <<node, cees, now, sumDt, transfers, sent, loaded, discharged>>

\* the stepper activates the engines that are bound to a command
SetNodeParameters ==
    /\ cee.phase \in {"initialized", "active"}
    /\ cee.hasCommand
    /\ cee' = setNodeParameters(cee, node, now).cee
    /\ node' = setNodeParameters(cee, node, now).node
    /\ UNCHANGED <<cees, now, sumDt, initTime, transfers, sent, loaded, discharged>>

UpdateState ==
    /\ cee.phase = "active"
    /\ \E stepSize \in 0..MaxStep :
          /\ sumDt + stepSize <= MaxElapsed
          /\ cee' = updateState(cee, node, stepSize).cee
          /\ node' = updateState(cee, node, stepSize).node
          /\ sumDt' = sumDt + stepSize
          /\ discharged' = discharged + (node.remaining - updateState(cee, node, stepSize).node.remaining)
    /\ UNCHANGED <<cees, now, initTime, transfers, sent, loaded>>

PerformEntryActions ==
    /\ cee.type = "EXCHANGE"
    /\ cee.phase = "active"
    /\ ~cee.entered
    /\ transfers' = transfers + ExchangeCEE_performEntryActions(cee)
    /\ cee' = [cee EXCEPT !.entered = TRUE]
    /\ UNCHANGED <<node, cees, now, sumDt, initTime, sent, loaded, discharged>>

\* exit actions that also put the node at the charging node
PerformExitActions_AtStation ==
    /\ cee.type = "EXCHANGE"
    /\ cee.phase = "active"
    /\ isCommandCompleted(cee, node, now) = Bool(TRUE)
    /\ \E leg \in StationLegs, s \in Speeds, r \in Rates,
          normalized \in BOOLEAN, perSecond \in Consumptions :
          LET cn == Target(node, leg)
              after == ExchangeCEE_performExitActions(cee, node, cees, sent, now,
                           cn, s, r, normalized, perSecond)
          IN  /\ node' = [after.node EXCEPT !.x = cn.x, !.y = cn.y, !.z = cn.z]
              /\ cees' = after.cees
              /\ sent' = after.sent
              /\ cee' = IF after.ret = Void THEN [cee EXCEPT !.phase = "exited"] ELSE cee
    /\ UNCHANGED <<now, sumDt, initTime, transfers, loaded, discharged>>

PerformExitActions ==
    /\ cee.type = "EXCHANGE"
    /\ cee.phase = "active"
    /\ isCommandCompleted(cee, node, now) = Bool(TRUE)
    /\ \E leg \in StationLegs, s \in Speeds, r \in Rates,
          normalized \in BOOLEAN, perSecond \in Consumptions :
          LET after == ExchangeCEE_performExitActions(cee, node, cees, sent, now,
                           Target(node, leg), s, r, normalized, perSecond)
          IN  /\ node' = after.node
              /\ cees' = after.cees
              /\ sent' = after.sent
              /\ cee' = IF after.ret = Void THEN [cee EXCEPT !.phase = "exited"] ELSE cee
    /\ UNCHANGED <<now, sumDt, initTime, transfers, loaded, discharged>>

(***************************************************************************)
(* The const calls: each hands back a value, an error or a failed          *)
(* assertion (the operators above) and changes nothing.                    *)
(***************************************************************************)
Initialized(e) == e.phase \in {"initialized", "active", "exited"}

Returns(v) == v.kind \in {"bool", "num", "error", "assert"}

IsCommandCompleted ==
    /\ Initialized(cee)
    /\ Returns(isCommandCompleted(cee, node, now))
    /\ UNCHANGED vars

GetOverallDuration ==
    /\ cee.type # "NONE"
    /\ cee.type \in {"WAYPOINT", "TAKEOFF"} => Initialized(cee)
    /\ Returns(getOverallDuration(cee))
    /\ UNCHANGED vars

GetOverallDurationQuantile ==
    /\ cee.type = "WAYPOINT"
    /\ Initialized(cee)
    /\ \E pessimisticSpeed \in Speeds :
          Returns(WaypointCEE_getOverallDurationQuantile(cee, pessimisticSpeed))
    /\ UNCHANGED vars

GetRemainingTime ==
    /\ cee.type # "NONE"
    /\ cee.type \in {"WAYPOINT", "TAKEOFF", "HOLDPOSITION"} => Initialized(cee)
    /\ Returns(getRemainingTime(cee, node, now))
    /\ UNCHANGED vars

GetProbableConsumption ==
    /\ cee.type # "NONE"
    /\ cee.type \in {"WAYPOINT", "TAKEOFF"} => Initialized(cee)
    /\ \E normalized \in BOOLEAN, perSecond \in Consumptions :
          Returns(getProbableConsumption(cee, normalized, perSecond))
    /\ UNCHANGED vars

GetConsumptionTotal ==
    /\ cee.type = "CHARGE"
    /\ Returns(ChargeCEE_getConsumptionTotal(cee, node))
    /\ UNCHANGED vars

Next ==
    \/ LoadCommand
    \/ SelectNextCommand
    \/ Tick
    \/ SetCommandCompleted
    \/ ChargeBattery
    \/ InitializeCEE
    \/ SetNodeParameters
    \/ UpdateState
    \/ PerformEntryActions
    \/ PerformExitActions
    \/ IsCommandCompleted
    \/ GetOverallDuration
    \/ GetOverallDurationQuantile
    \/ GetRemainingTime
    \/ GetProbableConsumption
    \/ GetConsumptionTotal

Spec == Init /\ [][Next]_vars

(***************************************************************************)
(* What the engine in execution answers in the current state.              *)
(***************************************************************************)
Completed == isCommandCompleted(cee, node, now)

IsA(type) == cee.type = type /\ Initialized(cee)

C2_LatchedIsCompleted ==
    (Initialized(cee) /\ cee.commandCompleted) => Completed = Bool(TRUE)

(***************************************************************************)
(* C3.  A HoldPosition engine initialized at time t0 with hold duration D: *)
(* getOverallDuration() is D; getRemainingTime() is (t0 + D) - now, hence  *)
(* D right after initializeCEE(); with the latch unset,                    *)
(* isCommandCompleted() is false while now < t0 + D and true at t0 + D.    *)
(***************************************************************************)
C3_HoldPosition ==
    IsA("HOLDPOSITION") =>
        LET D == cee.holdSeconds
            deadline == initTime + D
        IN  /\ getOverallDuration(cee) = Num(D)
            /\ getRemainingTime(cee, node, now) = Num(deadline - now)
            /\ now = initTime => getRemainingTime(cee, node, now) = Num(D)
            /\ (~cee.commandCompleted /\ now < deadline) => Completed = Bool(FALSE)
            /\ (~cee.commandCompleted /\ now = deadline) => Completed = Bool(TRUE)

\* a hold of a positive duration, initialized after the clock started, at its
\* deadline
C3_Witness ==
    /\ IsA("HOLDPOSITION")
    /\ ~cee.commandCompleted
    /\ cee.holdSeconds > 0
    /\ initTime > 0
    /\ now = initTime + cee.holdSeconds

(***************************************************************************)
(* C4.  isCommandCompleted() of a HoldPosition engine ends in a fatal      *)
(* error whenever the clock is past the deadline, latch set or not.        *)
(***************************************************************************)
C4_HoldPositionOvershoot ==
    (IsA("HOLDPOSITION") /\ now > initTime + cee.holdSeconds) => Completed = RuntimeError

\* past the deadline with the latch set
C4_Witness ==
    /\ IsA("HOLDPOSITION")
    /\ cee.commandCompleted
    /\ now > initTime + cee.holdSeconds

(***************************************************************************)
(* C5.  A Waypoint engine with origin # target and resolved speed s > 0:   *)
(* getOverallDuration() is the Euclidean distance origin-target over s;    *)
(* once the step sizes of its updateState calls sum to that duration the   *)
(* node is at the target and isCommandCompleted() is true; while the sum   *)
(* is smaller and the latch is unset, isCommandCompleted() is false.       *)
(***************************************************************************)
C5_Waypoint ==
    (/\ cee.type = "WAYPOINT"
     /\ cee.phase = "active"
     /\ <<cee.x0, cee.y0, cee.z0>> # <<cee.x1, cee.y1, cee.z1>>
     /\ cee.speed > 0) =>
        LET D == getOverallDuration(cee).n
            dx == cee.x1 - cee.x0
            dy == cee.y1 - cee.y0
            dz == cee.z1 - cee.z0
        IN  /\ getOverallDuration(cee).kind = "num"
            /\ (D * cee.speed) * (D * cee.speed) = dx * dx + dy * dy + dz * dz
            /\ sumDt = D =>
                  /\ <<node.x, node.y, node.z>> = <<cee.x1, cee.y1, cee.z1>>
                  /\ Completed = Bool(TRUE)
            /\ (sumDt < D /\ ~cee.commandCompleted) => Completed = Bool(FALSE)

\* a leg flown to its end in more than one step, the latch unset
C5_Witness ==
    /\ cee.type = "WAYPOINT"
    /\ cee.phase = "active"
    /\ ~cee.commandCompleted
    /\ <<cee.x0, cee.y0, cee.z0>> # <<cee.x1, cee.y1, cee.z1>>
    /\ sumDt = getOverallDuration(cee).n
    /\ sumDt > 1
    /\ <<node.x, node.y, node.z>> = <<cee.x1, cee.y1, cee.z1>>

(***************************************************************************)
(* C6.  A Takeoff engine after initializeCEE(): pitch 0; climb angle +90   *)
(* when the target altitude is above the origin altitude, -90 when below;  *)
(* the x and y targets are the origin's; getOverallDuration() is           *)
(* |z1 - z0| / speed; isCommandCompleted() is true exactly when the node's *)
(* z is z1.                                                                *)
(***************************************************************************)
C6_Takeoff ==
    IsA("TAKEOFF") =>
        /\ cee.pitch = 0
        /\ cee.z1 > cee.z0 => cee.climbAngle = 90
        /\ cee.z1 < cee.z0 => cee.climbAngle = -90
        /\ cee.x1 = cee.x0
        /\ cee.y1 = cee.y0
        /\ getOverallDuration(cee).kind = "num"
        /\ getOverallDuration(cee).n * cee.speed = Abs(cee.z1 - cee.z0)
        /\ Completed = Bool(node.z = cee.z1)

\* a descent flown to its target altitude
C6_Witness ==
    /\ cee.type = "TAKEOFF"
    /\ cee.phase = "active"
    /\ cee.z1 < cee.z0
    /\ sumDt > 0
    /\ node.z = cee.z1

(***************************************************************************)
(* C7.  getConsumptionTotal() of a Charge engine fails fatally before the  *)
(* engine was activated; once setNodeParameters() has taken the snapshot   *)
(* E0 of the remaining energy and the battery holds E1 > E0 it returns     *)
(* -(E1 - E0), a negative number; with E1 <= E0 its assertion fails.       *)
(***************************************************************************)
C7_ConsumptionTotal ==
    cee.type = "CHARGE" =>
        LET E0 == cee.batteryRemainingExecutionStart
            E1 == node.remaining
            total == ChargeCEE_getConsumptionTotal(cee, node)
        IN  /\ cee.phase \in {"created", "initialized"} => total = RuntimeError
            /\ (cee.phase = "active" /\ E1 > E0) => (total = Num(-(E1 - E0)) /\ total.n < 0)
            /\ (cee.phase = "active" /\ E1 <= E0) => total = AssertFailed

\* C7: the above in every state, E0 being the remaining energy of the node
\* when setNodeParameters() runs
C7_ChargeConsumptionTotal ==
    /\ []C7_ConsumptionTotal
    /\ [][(SetNodeParameters /\ cee.type = "CHARGE")
             => cee'.batteryRemainingExecutionStart = node.remaining]_vars

\* an active Charge engine whose battery has gained energy since its start
C7_Witness ==
    /\ cee.type = "CHARGE"
    /\ cee.phase = "active"
    /\ node.remaining > cee.batteryRemainingExecutionStart

(***************************************************************************)
(* C8.  getOverallDuration() and getRemainingTime() of a Charge, Exchange  *)
(* or Idle engine end in a fatal error in every lifecycle state, never in  *)
(* a number, and the failing call changes neither the engine nor the node; *)
(* getProbableConsumption of an Idle engine is 0 for all arguments.        *)
(***************************************************************************)
C8_NoForecastFails ==
    cee.type \in {"CHARGE", "EXCHANGE", "IDLE"} =>
        /\ getOverallDuration(cee) = RuntimeError
        /\ getRemainingTime(cee, node, now) = RuntimeError
        /\ cee.type = "IDLE" =>
              \A normalized \in BOOLEAN, perSecond \in Consumptions :
                  getProbableConsumption(cee, normalized, perSecond) = Num(0)

\* C8: the queries fail in every state, and a query changes neither the
\* engine, nor the node, nor its queue
C8_NoForecast ==
    /\ []C8_NoForecastFails
    /\ [][(GetOverallDuration \/ GetRemainingTime) => UNCHANGED <<node, cee, cees>>]_vars

\* an Exchange engine that is completed and retired
C8_Witness ==
    /\ cee.type = "EXCHANGE"
    /\ cee.phase = "exited"
    /\ cee.commandCompleted

(***************************************************************************)
(* C9.  performExitActions() of an Exchange engine whose command requests  *)
(* a recharge, the queue of the node being Q: the queue afterwards is the  *)
(* travel Waypoint engine, the Charge engine, the Idle engine and then Q   *)
(* in its order; each of the three is flagged not part of the mission and  *)
(* no replacement needed; the mission id of the node is -1.                *)
(***************************************************************************)
ExitStep ==
    /\ cee.type = "EXCHANGE"
    /\ cee.phase = "active"
    /\ cee'.phase = "exited"

C9_ExitPrepends ==
    [][(ExitStep /\ cee.rechargeRequested) =>
          /\ Len(cees') = Len(cees) + 3
          /\ SubSeq(cees', 4, Len(cees')) = cees
          /\ <<cees'[1].type, cees'[2].type, cees'[3].type>> = <<"WAYPOINT", "CHARGE", "IDLE">>
          /\ <<cees'[1].x0, cees'[1].y0, cees'[1].z0>> = <<node.x, node.y, node.z>>
          /\ \A i \in 2..3 : <<cees'[i].x1, cees'[i].y1, cees'[i].z1>>
                               = <<cees'[1].x1, cees'[1].y1, cees'[1].z1>>
          /\ \A i \in 1..3 : ~cees'[i].partOfMission /\ ~cees'[i].replacementNeeded
          /\ node'.missionId = -1]_vars

\* after the exit actions of an Exchange engine that ran ahead of a queue of two
C9_Witness ==
    /\ cee.type = "EXCHANGE"
    /\ cee.phase = "exited"
    /\ cee.rechargeRequested
    /\ Len(cees) = 5
    /\ cees[4] # cees[5]

(***************************************************************************)
(* C10.  performEntryActions() of an Exchange engine triggers exactly one  *)
(* mission-data transfer when a recharge is requested and the peer is      *)
(* known; none, and no error, when the peer is unknown or no recharge is   *)
(* requested; the engine carries on as it was.                             *)
(***************************************************************************)
EntryStep ==
    /\ cee.type = "EXCHANGE"
    /\ ~cee.entered
    /\ cee'.entered

C10_EntryTransfers ==
    [][EntryStep =>
          /\ transfers' = transfers
                + (IF cee.rechargeRequested /\ cee.otherNodeKnown THEN 1 ELSE 0)
          /\ cee' = [cee EXCEPT !.entered = TRUE]
          /\ UNCHANGED <<node, cees, sent>>]_vars

\* entry actions done with a recharge requested and the peer unknown
C10_Witness ==
    /\ cee.type = "EXCHANGE"
    /\ cee.entered
    /\ cee.rechargeRequested
    /\ ~cee.otherNodeKnown
    /\ transfers = 0

(***************************************************************************)
(* C11.  performExitActions() of an Exchange engine sends exactly one      *)
(* reservation request when the command requests a recharge: addressed to  *)
(* the charging node the travel engine flies to, with estimated arrival    *)
(* now + getOverallDuration() of the travel engine, its probable           *)
(* consumption and target percentage 100.  Without a recharge request it   *)
(* sends nothing and leaves the queue and the mission id as they were.     *)
(* The call ends in the step that sends: it waits for no answer.           *)
(***************************************************************************)
C11_ExitReserves ==
    [][ExitStep =>
          IF cee.rechargeRequested
          THEN /\ Len(sent') = Len(sent) + 1
               /\ SubSeq(sent', 1, Len(sent)) = sent
               /\ LET msg == sent'[Len(sent')]
                      travel == cees'[1]
                  IN  /\ msg.name = "reserveSpot"
                      /\ msg.to = <<travel.x1, travel.y1, travel.z1>>
                      /\ msg.estimatedArrival = now + getOverallDuration(travel).n
                      /\ \E normalized \in BOOLEAN, perSecond \in Consumptions :
                            getProbableConsumption(travel, normalized, perSecond)
                                = Num(msg.consumptionTillArrival)
                      /\ msg.targetPercentage = 100
          ELSE /\ sent' = sent
               /\ cees' = cees
               /\ node'.missionId = node.missionId]_vars

\* a reservation sent after the clock started, for a flight that takes time
C11_Witness ==
    /\ cee.type = "EXCHANGE"
    /\ cee.phase = "exited"
    /\ cee.rechargeRequested
    /\ Len(sent) = 1
    /\ Len(cees) >= 3
    /\ getOverallDuration(cees[1]).n > 0
    /\ sent[1].estimatedArrival > getOverallDuration(cees[1]).n

(***************************************************************************)
(* C12.  initializeCEE() on an engine whose command is absent ends in a    *)
(* fatal error and the engine does not become initialized: no derived      *)
(* kinematics and no consumption rate are set.                             *)
(***************************************************************************)
C12_AbsentCommandFails ==
    (cee.type # "NONE" /\ ~cee.hasCommand) =>
        /\ cee.phase = "created"
        /\ <<cee.yaw, cee.pitch, cee.climbAngle, cee.speed, cee.consumptionPerSecond>>
              = <<0, 0, 0, 0, 0>>

(***************************************************************************)
(* C13.  Whatever the leg (a zero-length one included), the hold duration  *)
(* (0 included) and the non-negative figure of the consumption model, the  *)
(* sanity assertion inside getProbableConsumption() holds, and the         *)
(* normalized result r satisfies 0 <= r < 1000.                            *)
(***************************************************************************)
C13_SanityBound ==
    (/\ cee.type # "NONE"
     /\ cee.hasCommand
     /\ cee.type \in {"WAYPOINT", "TAKEOFF"} => Initialized(cee)) =>
        \A normalized \in BOOLEAN, perSecond \in Consumptions :
            LET consumption == getProbableConsumption(cee, normalized, perSecond)
            IN  /\ consumption # AssertFailed
                /\ consumption.kind = "num"
                /\ normalized => (0 <= consumption.n /\ consumption.n < 1000)

(***************************************************************************)
(* C14.  Position, orientation (yaw, pitch, climb angle), speed and        *)
(* battery of the node are left as they are by the constructors, by        *)
(* initializeCEE(), by isCommandCompleted(), by the predictive queries and *)
(* by the entry and exit actions; the predictive queries leave the engine  *)
(* as it is, too.                                                          *)
(***************************************************************************)
AgentState(nd) ==
    <<nd.x, nd.y, nd.z, nd.yaw, nd.pitch, nd.climbAngle, nd.speed, nd.remaining>>

PredictiveQuery ==
    \/ GetOverallDuration
    \/ GetOverallDurationQuantile
    \/ GetRemainingTime
    \/ GetProbableConsumption

C14_AgentFrame ==
    [][/\ (\/ LoadCommand
           \/ InitializeCEE
           \/ IsCommandCompleted
           \/ PredictiveQuery
           \/ PerformEntryActions
           \/ PerformExitActions) => AgentState(node') = AgentState(node)
       /\ PredictiveQuery => cee' = cee]_vars

\* an Exchange engine that discharged the battery while it ran and whose exit
\* actions then queued the flight to a charging node elsewhere
C14_Witness ==
    /\ cee.type = "EXCHANGE"
    /\ cee.phase = "exited"
    /\ cee.rechargeRequested
    /\ sumDt > 0
    /\ node.remaining < Capacity - 1
    /\ node.missionId = -1
    /\ Len(cees) >= 3
    /\ <<cees[1].x1, cees[1].y1, cees[1].z1>> # <<node.x, node.y, node.z>>

(***************************************************************************)
(* C15.  Once initializeCEE() has run, the yaw, pitch, climb angle, speed  *)
(* and consumption per second of the engine stay as they are through       *)
(* setNodeParameters(), updateState(), isCommandCompleted() and the        *)
(* predictive queries: only another initializeCEE() changes them, so the   *)
(* consumption rate is drawn once per initialization.                      *)
(***************************************************************************)
Derived(e) == <<e.yaw, e.pitch, e.climbAngle, e.speed, e.consumptionPerSecond>>

C15_DerivedFrozen ==
    [][(/\ Initialized(cee)
        /\ \/ SetNodeParameters
           \/ UpdateState
           \/ IsCommandCompleted
           \/ PredictiveQuery) => Derived(cee') = Derived(cee)]_vars

\* a climbing Waypoint engine under way
C15_Witness ==
    /\ cee.type = "WAYPOINT"
    /\ cee.phase = "active"
    /\ sumDt > 0
    /\ cee.pitch # 0
    /\ cee.speed > 0
    /\ cee.consumptionPerSecond > 0
    /\ <<node.x, node.y, node.z>> # <<cee.x0, cee.y0, cee.z0>>

(***************************************************************************)
(* C16.  updateState() of a HoldPosition, Charge, Exchange or Idle engine  *)
(* leaves the position of the node as it is; of a Charge engine it changes *)
(* nothing, neither node nor engine; of an Idle engine it leaves the       *)
(* remaining energy as it is, whatever the step size.                      *)
(***************************************************************************)
C16_StationaryUpdate ==
    [][(UpdateState /\ cee.type \in {"HOLDPOSITION", "CHARGE", "EXCHANGE", "IDLE"}) =>
          /\ <<node'.x, node'.y, node'.z>> = <<node.x, node.y, node.z>>
          /\ cee.type = "CHARGE" => (node' = node /\ cee' = cee)
          /\ cee.type = "IDLE" => node'.remaining = node.remaining]_vars

\* an Idle engine updated over the longest time, the battery not empty
C16_Witness ==
    /\ cee.type = "IDLE"
    /\ cee.phase = "active"
    /\ sumDt = MaxElapsed
    /\ node.remaining > 0

(***************************************************************************)
(* C17.  Each updateState(dt) of a Waypoint, Takeoff, HoldPosition or      *)
(* Exchange engine discharges the battery once, by consumptionPerSecond *  *)
(* dt; so the energy the engine has discharged is consumptionPerSecond     *)
(* times the sum of its step sizes, however the time was split into steps  *)
(* (a battery that has run empty gives up no more than it held).           *)
(***************************************************************************)
Discharging == {"WAYPOINT", "TAKEOFF", "HOLDPOSITION", "EXCHANGE"}

C17_Total ==
    (cee.type \in Discharging /\ cee.phase = "active") =>
        /\ discharged <= cee.consumptionPerSecond * sumDt
        /\ node.remaining > 0 => discharged = cee.consumptionPerSecond * sumDt

C18_NoClamping ==
    (/\ cee.type = "WAYPOINT"
     /\ cee.phase = "active"
     /\ <<cee.x0, cee.y0, cee.z0>> # <<cee.x1, cee.y1, cee.z1>>
     /\ cee.speed > 0) =>
        LET D == getOverallDuration(cee).n
        IN  /\ (node.x - cee.x0) * D = (cee.x1 - cee.x0) * sumDt
            /\ (node.y - cee.y0) * D = (cee.y1 - cee.y0) * sumDt
            /\ (node.z - cee.z0) * D = (cee.z1 - cee.z0) * sumDt
            /\ sumDt > D => /\ <<node.x, node.y, node.z>> # <<cee.x1, cee.y1, cee.z1>>
                            /\ Completed = Bool(cee.commandCompleted)

\* a Waypoint engine stepped on after it flew past its target, not completed
C18_Witness ==
    /\ cee.type = "WAYPOINT"
    /\ cee.phase = "active"
    /\ ~cee.commandCompleted
    /\ sumDt > MaxStep
    /\ sumDt > getOverallDuration(cee).n + 1
    /\ Completed = Bool(FALSE)

(***************************************************************************)
(* C19.  updateState(dt) of a Takeoff engine leaves x and y of the node as *)
(* they are and moves z toward the target altitude.  With r = |z1 - z|     *)
(* before the call and d = speed * dt:                                     *)
(***************************************************************************)
TakeoffStep == UpdateState /\ cee.type = "TAKEOFF"

Between(a, v, b) == (a <= v /\ v <= b) \/ (b <= v /\ v <= a)

\* the claim as stated: the node never passes the target altitude, r - d is
\* left after the call and z stays between its previous value and z1
C19_NeverPastAsStated ==
    [][TakeoffStep =>
          LET r == Abs(cee.z1 - node.z)
              d == cee.speed * (sumDt' - sumDt)
          IN  /\ <<node'.x, node'.y>> = <<node.x, node.y>>
              /\ Abs(cee.z1 - node'.z) = r - d
              /\ Between(node.z, node'.z, cee.z1)]_vars

\* C19 as amended: |r - d| is left after the call; z stays between its
\* previous value and z1 when d <= r, and ends d - r past z1 when d > r
C19_TowardTarget ==
    [][TakeoffStep =>
          LET r == Abs(cee.z1 - node.z)
              d == cee.speed * (sumDt' - sumDt)
          IN  /\ <<node'.x, node'.y>> = <<node.x, node.y>>
              /\ Abs(cee.z1 - node'.z) = Abs(r - d)
              /\ d <= r => (Abs(cee.z1 - node'.z) = r - d /\ Between(node.z, node'.z, cee.z1))
              /\ d > r => (Abs(cee.z1 - node'.z) = d - r /\ ~Between(node.z, node'.z, cee.z1))]_vars

\* a Takeoff engine under way, the node strictly between origin and target
C19_Witness ==
    /\ cee.type = "TAKEOFF"
    /\ cee.phase = "active"
    /\ sumDt > 0
    /\ node.z # cee.z0
    /\ node.z # cee.z1
    /\ Between(cee.z0, node.z, cee.z1)

(***************************************************************************)
(* C20.  While a HoldPosition, Charge, Exchange or Idle engine is active,  *)
(* whatever engine was active before it, the speed, the pitch and the      *)
(* climb angle of the node are 0.                                          *)
(***************************************************************************)
C20_StationaryAgent ==
    (cee.type \in {"HOLDPOSITION", "CHARGE", "EXCHANGE", "IDLE"} /\ cee.phase = "active") =>
        <<node.speed, node.pitch, node.climbAngle>> = <<0, 0, 0>>

====
